---- MODULE Spec2Model ----
(***************************************************************************)
(* klvgen: a generator of MISB 601.2 KLV metadata packets sent over UDP.   *)
(*                                                                         *)
(* The model follows src/klvgen.c (the functions) and src/unnamed/part_002 *)
(* (main: defaults, option parsing, transport setup, transmission loop).   *)
(*                                                                         *)
(* Representation.                                                         *)
(*  - A C float is a record [k, s, m, e]: kind "fin" or "inf", sign s      *)
(*    (1 = negative), and for a finite value the magnitude m * 2^e with    *)
(*    m = 0 or 2^23 <= m < 2^24 (IEEE-754 binary32, round to nearest even; *)
(*    no value of the model leaves the normal exponent range).             *)
(*  - An unsigned integer of w bytes is the sequence of its bytes, least   *)
(*    significant first (its value, not its memory image); Mem gives the   *)
(*    memory image on the host.                                            *)
(*  - int32_t values are integers in -2^31 .. 2^31-1.                      *)
(***************************************************************************)
EXTENDS Integers, Sequences, FiniteSets, TLC

\* ------------------------------------------------------------- bounds
\* Options read from the command line before getopt_long returns -1.
MaxOpts == 2
\* Iterations of the transmission loop that are followed.
MaxTicks == 2
\* Length of the buffers makeChecksum is applied to on its own.
MaxLen == 3

\* ------------------------------------------------------------- integers
\* 2^n for n in 0..30.
Pow2(n) ==
  <<1, 2, 4, 8, 16, 32, 64, 128, 256, 512, 1024, 2048, 4096, 8192, 16384, 32768,
    65536, 131072, 262144, 524288, 1048576, 2097152, 4194304, 8388608, 16777216,
    33554432, 67108864, 134217728, 268435456, 536870912, 1073741824>>[n + 1]

\* The number of bits of n, for 0 <= n < 2^30.
BitLen(n) == CHOOSE k \in 0..30 : n < Pow2(k) /\ (k = 0 \/ n >= Pow2(k - 1))

INT32_MAX == 2147483647
INT32_MIN == -2147483647 - 1

\* Byte i (0 = least significant) of a non-negative integer below 2^31.
ByteAt(n, i) == IF i >= 4 THEN 0 ELSE (n \div Pow2(8 * i)) % 256

\* The w-byte unsigned value of a non-negative integer, least significant first.
ToBytes(n, w) == [i \in 1..w |-> ByteAt(n, i - 1)]

\* The 32-bit pattern (two's complement) of an int32_t value.
Int32Bits(v) ==
  IF v >= 0 THEN ToBytes(v, 4)
  ELSE LET u == (v + INT32_MAX) + 1      \* v + 2^31, in 0 .. 2^31-1
       IN [i \in 1..4 |-> IF i = 4 THEN ByteAt(u, 3) + 128 ELSE ByteAt(u, i - 1)]

Reverse(s) == [i \in 1..Len(s) |-> s[Len(s) + 1 - i]]

\* The memory image of an integer value on a host of the given endianness.
Mem(v, bigEndian) == IF bigEndian THEN Reverse(v) ELSE v

\* Lexicographic order on byte sequences of equal length, first byte most
\* significant: the order of the big-endian numbers they encode.
RECURSIVE BytesLeq(_, _)
BytesLeq(a, b) ==
  IF Len(a) = 0 THEN TRUE
  ELSE IF a[1] # b[1] THEN a[1] < b[1]
  ELSE BytesLeq(Tail(a), Tail(b))

\* ------------------------------------------------------------- floats
FZero == [k |-> "fin", s |-> 0, m |-> 0, e |-> 0]
FInf(s) == [k |-> "inf", s |-> s, m |-> 0, e |-> 0]

\* The float of the exact value m * 2^e, m < 2^24.
FNorm(s, m, e) ==
  IF m = 0 THEN FZero
  ELSE LET sh == 24 - BitLen(m)
       IN [k |-> "fin", s |-> s, m |-> m * Pow2(sh), e |-> e - sh]

\* Round to nearest, ties to even: m is the 24-bit mantissa, rnd the first bit
\* dropped, sticky whether any later bit dropped is set.
RoundNE(s, m, rnd, sticky, e) ==
  LET up == rnd = 1 /\ (sticky \/ m % 2 = 1)
      m1 == IF up THEN m + 1 ELSE m
  IN IF m1 = Pow2(24) THEN [k |-> "fin", s |-> s, m |-> Pow2(23), e |-> e + 1]
     ELSE [k |-> "fin", s |-> s, m |-> m1, e |-> e]

\* The float nearest to (H * 2^24 + L) * 2^e, with L < 2^24 and H < 2^26.
RoundHL(s, H, L, e) ==
  LET n == BitLen(H)
  IN IF n = 0 THEN FNorm(s, L, e)
     ELSE IF n <= 24
       THEN RoundNE(s, H * Pow2(24 - n) + (L \div Pow2(n)),
                    (L \div Pow2(n - 1)) % 2, L % Pow2(n - 1) # 0, e + n)
       ELSE LET j == n - 24
            IN RoundNE(s, H \div Pow2(j), (H \div Pow2(j - 1)) % 2,
                       (H % Pow2(j - 1) # 0) \/ (L # 0), e + n)

\* Long division: bits of num/den (four at a time, then one at a time) until
\* the quotient has 25 bits; q is the quotient so far, r the remainder.
RECURSIVE DivStep(_, _, _, _)
DivStep(q, r, den, e) ==
  IF q >= Pow2(24) THEN [q |-> q, r |-> r, e |-> e]
  ELSE IF q < Pow2(20)
    THEN DivStep(16 * q + ((16 * r) \div den), (16 * r) % den, den, e - 4)
  ELSE IF 2 * r >= den THEN DivStep(2 * q + 1, 2 * r - den, den, e - 1)
  ELSE DivStep(2 * q, 2 * r, den, e - 1)

\* The float nearest to (num / den) * 2^e, with 0 < den < 2^27 and
\* num < 2^24 * den.
RoundQ(s, num, den, e) ==
  IF num = 0 THEN FZero
  ELSE LET d == DivStep(num \div den, num % den, den, e)
       IN RoundNE(s, d.q \div 2, d.q % 2, d.r # 0, d.e + 1)

\* (float)n for an int n.
FromInt(n) ==
  LET a == IF n < 0 THEN -n ELSE n
  IN RoundHL(IF n < 0 THEN 1 ELSE 0, a \div Pow2(24), a % Pow2(24), 0)

FNeg(a) == IF a.k = "fin" /\ a.m = 0 THEN a ELSE [a EXCEPT !.s = 1 - a.s]

\* |a| >= |b| for finite a, b.
MagGeq(a, b) ==
  IF b.m = 0 THEN TRUE
  ELSE IF a.m = 0 THEN FALSE
  ELSE a.e > b.e \/ (a.e = b.e /\ a.m >= b.m)

\* a + b in float arithmetic (finite operands).
FAdd(a, b) ==
  IF a.m = 0 THEN b
  ELSE IF b.m = 0 THEN a
  ELSE LET big == IF MagGeq(a, b) THEN a ELSE b
           small == IF MagGeq(a, b) THEN b ELSE a
           d == big.e - small.e
       IN IF d >= 26 THEN big
          ELSE LET H == IF d < 24 THEN big.m \div Pow2(24 - d)
                        ELSE big.m * Pow2(d - 24)
                   L == IF d < 24 THEN (big.m % Pow2(24 - d)) * Pow2(d) ELSE 0
                   sum == L + small.m
                   dif == L - small.m
               IN IF big.s = small.s
                  THEN RoundHL(big.s, H + (sum \div Pow2(24)), sum % Pow2(24), small.e)
                  ELSE IF dif >= 0 THEN
                         IF H = 0 /\ dif = 0 THEN FZero
                         ELSE RoundHL(big.s, H, dif, small.e)
                  ELSE RoundHL(big.s, H - 1, dif + Pow2(24), small.e)

FSub(a, b) == FAdd(a, FNeg(b))

\* a * b in float arithmetic.
FMul(a, b) ==
  LET s == (a.s + b.s) % 2
  IN IF a.k = "inf" \/ b.k = "inf" THEN FInf(s)
     ELSE IF a.m = 0 \/ b.m = 0 THEN FZero
     ELSE LET a1 == a.m \div 4096
              a0 == a.m % 4096
              b1 == b.m \div 4096
              b0 == b.m % 4096
              mid == a1 * b0 + a0 * b1
              low == (mid % 4096) * 4096 + a0 * b0
          IN RoundHL(s, a1 * b1 + (mid \div 4096) + (low \div Pow2(24)),
                     low % Pow2(24), a.e + b.e)

\* a / b in float arithmetic (a finite; x/0 is an infinity for x # 0).
FDiv(a, b) ==
  LET s == (a.s + b.s) % 2
  IN IF b.k = "inf" THEN FZero
     ELSE IF b.m = 0 THEN FInf(s)
     ELSE IF a.m = 0 THEN FZero
     ELSE RoundQ(s, a.m, b.m, a.e - b.e)

\* a > b for finite floats.
FGt(a, b) ==
  IF a.s # b.s THEN a.s = 0 /\ (a.m # 0 \/ b.m # 0)
  ELSE IF a.s = 0 THEN ~MagGeq(b, a)
  ELSE ~MagGeq(a, b)

\* The outcomes of (int32_t)f. The value is truncated toward zero; when the
\* truncated value is not an int32_t the behaviour is undefined: x86 (cvttss2si)
\* yields INT32_MIN, ARM (fcvtzs) saturates. (-2^31 itself converts exactly.)
ToInt32Set(f) ==
  IF f.k = "inf" \/ (f.m # 0 /\ f.e >= 8)
    THEN IF f.s = 1 THEN {INT32_MIN} ELSE {INT32_MIN, INT32_MAX}
  ELSE IF f.m = 0 THEN {0}
  ELSE LET mag == IF f.e >= 0 THEN f.m * Pow2(f.e)
                  ELSE IF -f.e >= 24 THEN 0
                  ELSE f.m \div Pow2(-f.e)
       IN {IF f.s = 1 THEN -mag ELSE mag}

\* The outcomes of the conversion of f to a 32-bit unsigned integer (useconds_t,
\* DWORD), as 4-byte values. Outside (-1, 2^32) the behaviour is undefined:
\* x86-64 keeps the low 32 bits of a 64-bit conversion, ARM saturates.
ToUInt32Set(f) ==
  IF f.k = "inf" \/ (f.s = 1 /\ f.m # 0 /\ f.e > -24) \/ f.e >= 9
    THEN {<<0, 0, 0, 0>>, <<255, 255, 255, 255>>}
  ELSE IF f.m = 0 \/ -f.e >= 24 THEN {<<0, 0, 0, 0>>}
  ELSE IF f.e = 8 THEN {[i \in 1..4 |-> IF i = 1 THEN 0 ELSE ByteAt(f.m, i - 2)]}
  ELSE IF f.e >= 0 THEN {ToBytes(f.m * Pow2(f.e), 4)}
  ELSE {ToBytes(f.m \div Pow2(-f.e), 4)}

\* ------------------------------------------------------------- option arguments
\* The text of a numeric option argument, as the decimal number it spells:
\* (-1)^neg * num / den.
Arg(neg, num, den) == [neg |-> neg, num |-> num, den |-> den, str |-> <<>>]
StrArg(str) == [neg |-> FALSE, num |-> 0, den |-> 1, str |-> str]

\* (float)atof(str): the arguments of the model are integers or decimals whose
\* nearest double and nearest float agree with the nearest float of the decimal.
AtofFloat(str) == RoundQ(IF str.neg /\ str.num # 0 THEN 1 ELSE 0, str.num, str.den, 0)

\* atoi(str), atol(str): the integer the text starts with.
Atoi(str) == IF str.neg THEN -(str.num \div str.den) ELSE str.num \div str.den

\* atof(str) < k and atof(str) > k for an integer k.
AtofLt(str, k) == (IF str.neg THEN -str.num ELSE str.num) < k * str.den
AtofGt(str, k) == (IF str.neg THEN -str.num ELSE str.num) > k * str.den

\* ------------------------------------------------------------- unit mapper
\* mapValue, in float arithmetic, then the cast to int32_t: the set of the
\* values the cast can produce.
mapValue(val, inStart, inEnd, outStart, outEnd) ==
  ToInt32Set(FAdd(outStart,
                  FMul(FDiv(FSub(outEnd, outStart), FSub(inEnd, inStart)),
                       FSub(val, inStart))))

mapLatitude(str) ==
  mapValue(AtofFloat(str), FromInt(-90), FromInt(90),
           FromInt(-2147483647), FromInt(2147483647))

mapLongitude(str) ==
  mapValue(AtofFloat(str), FromInt(-180), FromInt(180),
           FromInt(-2147483647), FromInt(2147483647))

\* (uint16_t) of the int32_t that mapValue returns.
mapAltitude(str) ==
  {v % 65536 : v \in mapValue(FromInt(Atoi(str)), FromInt(-900), FromInt(19000),
                              FromInt(0), FromInt(65535))}

\* ------------------------------------------------------------- checksum
\* A buffer is the sequence of its bytes: the byte at offset off is buf[off + 1].
At(buf, off) == buf[off + 1]

\* bcc += buff[i] << (8 * ((i + 1) % 2)) over the offsets lo .. hi-1, in an
\* unsigned accumulator of the given modulus. The additions are modular, so
\* the sum of a range is the sum of its two halves: the range is halved to
\* keep the evaluation shallow.
RECURSIVE ChecksumLoop(_, _, _, _)
ChecksumLoop(b, lo, hi, modulus) ==
  IF lo >= hi THEN 0
  ELSE IF hi = lo + 1 THEN (At(b, lo) * Pow2(8 * ((lo + 1) % 2))) % modulus
  ELSE LET mid == (lo + hi) \div 2
       IN (ChecksumLoop(b, lo, mid, modulus) + ChecksumLoop(b, mid, hi, modulus))
            % modulus

\* A checksum accumulated in 8 bits instead of 16.
makeChecksum8(b, n) == ChecksumLoop(b, 0, n, 256)

\* uint16_t makeChecksum(unsigned char *buff, unsigned short len)
makeChecksum(b, n) == ChecksumLoop(b, 0, n, 65536)

\* ------------------------------------------------------------- byte order
\* htonl, htons: host value to the value whose memory image is big-endian.
hton(v, bigEndian) == IF bigEndian THEN v ELSE Reverse(v)

sysIsBigEndian(bigEndian) == bigEndian

htonll(num, bigEndian) == IF sysIsBigEndian(bigEndian) THEN num ELSE Reverse(num)

\* ------------------------------------------------------------- constants
PACKET_LENGTH == 78
ldsVersion == 2
msgLength == 61
uasLdsKey == <<6, 14, 43, 52, 2, 11, 1, 1, 14, 1, 3, 1, 1, 0, 0, 0>>
timestampTagLen == <<2, 8>>
missionTagLen == <<3, 12>>
platformTagLen == <<10, 12>>
latitudeTagLen == <<13, 4>>
longitudeTagLen == <<14, 4>>
altitudeTagLen == <<15, 2>>
versionTagLen == <<65, 1>>
checksumTagLen == <<1, 2>>
\* DEBUG is set to 0 before option parsing and never changed: the blocks of
\* main guarded by it never run.
DEBUG == 0

\* ASCII texts.
TxtMission01 == <<77, 105, 115, 115, 105, 111, 110, 32, 48, 49>>
TxtDemo == <<68, 101, 109, 111>>
TxtLocalhost == <<49, 50, 55, 46, 48, 46, 48, 46, 49>>

\* ------------------------------------------------------------- memory
\* A zero-initialised buffer of n bytes.
ZeroBuf(n) == [i \in 1..n |-> 0]

\* The first n bytes of a buffer.
Bytes(buf, n) == SubSeq(buf, 1, n)

\* memcpy(&buf[off], bytes, n)
Memcpy(buf, off, bytes, n) ==
  SubSeq(buf, 1, off) \o SubSeq(bytes, 1, n) \o SubSeq(buf, off + n + 1, Len(buf))

\* buf[off] = byte
Poke(buf, off, byte) == Memcpy(buf, off, <<byte>>, 1)

\* strcpy(buf, str): the characters and the terminating NUL.
Strcpy(buf, str) == Memcpy(buf, 0, Append(str, 0), Len(str) + 1)

\* strncpy(buf, str, n): n bytes, the characters then NULs.
Strncpy(buf, str, n) ==
  IF Len(str) >= n THEN Memcpy(buf, 0, str, n)
  ELSE Memcpy(buf, 0, str \o ZeroBuf(n - Len(str)), n)

\* ------------------------------------------------------------- state
VARIABLES
  build,        \* the build: [os, bigEndian, charUnsigned]
  pc,           \* position of main: getopt, udpInit, clock, send, sleep, exited
  nopts,        \* options read so far
  address, missionId, platform, sendRate, servPort,
  sock,         \* the global sock (0 until udpInit assigns it)
  sockOpen,     \* whether sock is a socket this process has opened
  servaddr,
  altitude, checksum, latitude, longitude, timestamp,
  packetBuffer,
  now,          \* the last reading of the wall clock, [sec, nsec]
  tick,         \* iterations of the transmission loop begun
  sent,         \* the calls of sendto: [buf, len, ok, tick, clk]
  slept,        \* the calls of the platform sleep: [unit, amount, tick]
  mapped,       \* the last call of a map function: [fn, arg, out]
  invalidSeen,  \* an option with an invalid value has been read
  initReturns,  \* the values udpInit has returned
  exitStatus,   \* the argument of exit, -2 while running
  closeCalls,   \* the sockets closed by exitProgram: [fd, open]
  buff, len     \* a buffer and a length makeChecksum is applied to on its own

vars == <<build, pc, nopts, address, missionId, platform, sendRate, servPort,
          sock, sockOpen, servaddr, altitude, checksum, latitude, longitude,
          timestamp, packetBuffer, now, tick, sent, slept, mapped, invalidSeen,
          initReturns, exitStatus, closeCalls, buff, len>>

configVars == <<address, missionId, platform, sendRate, servPort,
                altitude, latitude, longitude, mapped>>
loopVars == <<timestamp, checksum, packetBuffer, now, tick, sent, slept>>
sockVars == <<sock, sockOpen, servaddr, initReturns>>
chkVars == <<buff, len>>

\* ------------------------------------------------------------- packet encoder
\* makePacket up to the checksum tag: every field but the checksum.
PacketBody(b, ts) ==
  LET be == build.bigEndian
      b1 == Memcpy(b, 0, uasLdsKey, 16)
      b2 == Memcpy(b1, 16, <<msgLength>>, 1)
      b3 == Memcpy(b2, 17, timestampTagLen, 2)
      b4 == Memcpy(b3, 19, Mem(ts, be), 8)
      b5 == Memcpy(b4, 27, missionTagLen, 2)
      b6 == Memcpy(b5, 29, Bytes(missionId, 12), 12)
      b7 == Memcpy(b6, 41, platformTagLen, 2)
      b8 == Memcpy(b7, 43, Bytes(platform, 12), 12)
      b9 == Memcpy(b8, 55, latitudeTagLen, 2)
      b10 == Memcpy(b9, 57, Mem(latitude, be), 4)
      b11 == Memcpy(b10, 61, longitudeTagLen, 2)
      b12 == Memcpy(b11, 63, Mem(longitude, be), 4)
      b13 == Memcpy(b12, 67, altitudeTagLen, 2)
      b14 == Memcpy(b13, 69, Mem(altitude, be), 2)
      b15 == Memcpy(b14, 71, versionTagLen, 2)
      b16 == Memcpy(b15, 73, <<ldsVersion>>, 1)
  IN Memcpy(b16, 74, checksumTagLen, 2)

\* A packet assembled with the version field left out: every later field
\* moves one byte down.
PacketBodyShifted(b, ts) ==
  LET full == PacketBody(b, ts)
  IN SubSeq(full, 1, 73) \o SubSeq(full, 75, 76) \o SubSeq(b, 76, Len(b))

\* The value makePacket assigns to the uint32_t checksum.
PacketChecksum(b, ts) == ToBytes(makeChecksum(PacketBody(b, ts), 76), 4)

\* A makePacket that leaves the version field out.
makePacketShifted(b, ts) ==
  Memcpy(PacketBodyShifted(b, ts), 76, Mem(PacketChecksum(b, ts), build.bigEndian), 2)

\* makePacket(buff), with ts the global timestamp at the call: the first two
\* bytes of the memory image of the uint32_t checksum go to offset 76.
makePacket(b, ts) ==
  Memcpy(PacketBody(b, ts), 76, Mem(PacketChecksum(b, ts), build.bigEndian), 2)

\* ------------------------------------------------------------- clock source
ClockLeq(a, b) == a.sec < b.sec \/ (a.sec = b.sec /\ a.nsec <= b.nsec)

\* x ^ 9 for x >= 0: bits 0 and 3 flipped.
Xor9(x) ==
  x + (IF x % 2 = 1 THEN -1 ELSE 1) + (IF (x \div 8) % 2 = 1 THEN -8 ELSE 8)

\* updateTimestamp() when the wall clock reads clk, as a uint64_t.
\* WIN32: SYSTEMTIME has millisecond resolution; now.QuadPart - epoch.QuadPart
\* is the reading in 100 ns units relative to 1970-01-01.
updateTimestamp(clk) ==
  IF build.os = "WIN32" THEN
    LET delta == clk.sec * 10000000 + (clk.nsec \div 1000000) * 10000
    IN IF delta > 0 THEN ToBytes(delta \div 10, 8) ELSE ToBytes(0, 8)
  ELSE IF build.os = "LINUX" THEN
    ToBytes(clk.sec * 1000000 + clk.nsec \div 1000, 8)
  ELSE \* APPLE: (ts.tv_sec * 10^9) + ts.tv_nsec, where ^ is exclusive or
    ToBytes(Xor9(clk.sec * 10) + clk.nsec, 8)

\* ------------------------------------------------------------- inputs
\* The builds: the Makefile's targets on the hosts they run on. char is
\* unsigned on ARM Linux; MIPS and SPARC Linux are big-endian.
Builds ==
  { [os |-> "LINUX", bigEndian |-> FALSE, charUnsigned |-> FALSE],
    [os |-> "LINUX", bigEndian |-> FALSE, charUnsigned |-> TRUE],
    [os |-> "LINUX", bigEndian |-> TRUE, charUnsigned |-> FALSE],
    [os |-> "APPLE", bigEndian |-> FALSE, charUnsigned |-> FALSE],
    [os |-> "WIN32", bigEndian |-> FALSE, charUnsigned |-> FALSE] }

\* The readings of the wall clock, h half seconds from the epoch.
ClockAt(h) == [sec |-> h \div 2, nsec |-> (h % 2) * 500000000]

\* The reading when main starts: the epoch, or half a second before it. A
\* clock set before 1970 is a reading that only the WIN32 variant can see
\* (FILETIME counts from 1601; a timespec of CLOCK_REALTIME and a
\* mach_timespec_t are not negative).
StartReadings == {ClockAt(h) : h \in (IF build.os = "WIN32" THEN {-1} ELSE {0})}

\* The readings in the transmission loop: half a second and a second after
\* the epoch.
LoopReadings == {ClockAt(h) : h \in {1, 2}}

RateArgs == {Arg(FALSE, 0, 1), Arg(FALSE, 4, 1), Arg(FALSE, 1000001, 1)}
LatArgs == {Arg(TRUE, 90, 1), Arg(FALSE, 90, 1), Arg(FALSE, 91, 1)}
LonArgs == {Arg(TRUE, 180, 1), Arg(TRUE, 181, 1)}
AltArgs == {Arg(FALSE, 19000, 1), Arg(FALSE, 19001, 1)}
\* the 13 characters "ABCDEFGHIJKLM"
MissionArgs == {StrArg(<<65, 66, 67, 68, 69, 70, 71, 72, 73, 74, 75, 76, 77>>)}
\* "UAV"
PlatformArgs == {StrArg(<<85, 65, 86>>)}
\* "10.0.0.1"
AddressArgs == {StrArg(<<49, 48, 46, 48, 46, 48, 46, 49>>)}
PortArgs == {Arg(FALSE, 9001, 1)}
DefaultLat == Arg(FALSE, 4464423, 100000)
DefaultLon == Arg(TRUE, 9324013, 100000)
DefaultAlt == Arg(FALSE, 333, 1)
ByteSamples == {0, 1, 128, 255}

\* What the command-line contract calls an invalid value of option c.
ValueInvalid(c, a) ==
  \/ c = "r" /\ (~AtofGt(a, 0) \/ AtofGt(a, 1000000))
  \/ c = "t" /\ (AtofLt(a, -90) \/ AtofGt(a, 90))
  \/ c = "g" /\ (AtofLt(a, -180) \/ AtofGt(a, 180))
  \/ c = "e" /\ (AtofLt(a, -900) \/ AtofGt(a, 19000))

\* ------------------------------------------------------------- main: start
\* The state when main reaches the option loop: the first reading of the
\* clock and the default values.
MainInit ==
  /\ build \in Builds
  /\ now \in StartReadings
  /\ timestamp = updateTimestamp(now)
  /\ pc = "getopt"
  /\ nopts = 0
  /\ sendRate = FromInt(1)
  /\ missionId = Strcpy(ZeroBuf(13), TxtMission01)
  /\ platform = Strcpy(ZeroBuf(13), TxtDemo)
  /\ latitude \in {hton(Int32Bits(v), build.bigEndian) : v \in mapLatitude(DefaultLat)}
  /\ longitude \in {hton(Int32Bits(v), build.bigEndian) : v \in mapLongitude(DefaultLon)}
  /\ altitude \in {hton(ToBytes(v, 2), build.bigEndian) : v \in mapAltitude(DefaultAlt)}
  /\ mapped \in {[fn |-> "alt", arg |-> DefaultAlt, out |-> v] : v \in mapAltitude(DefaultAlt)}
  /\ address = Strcpy(ZeroBuf(16), TxtLocalhost)
  /\ servPort = 9000
  /\ sock = 0
  /\ sockOpen = FALSE
  /\ servaddr = [addr |-> Bytes(ZeroBuf(16), 16), port |-> 0]
  /\ checksum = ToBytes(0, 4)
  /\ packetBuffer = ZeroBuf(79)
  /\ tick = 0
  /\ sent = <<>>
  /\ slept = [unit |-> "none", amount |-> ToBytes(0, 4), tick |-> 0]
  /\ invalidSeen = FALSE
  /\ initReturns = <<>>
  /\ exitStatus = -2
  /\ closeCalls = <<>>

Init ==
  /\ MainInit
  /\ buff = <<>>
  /\ len = 0

\* exit(status)
Exit(status) == pc' = "exited" /\ exitStatus' = status

\* ------------------------------------------------------------- main: options
\* One turn of the getopt_long loop that reads an option.
ReadOption(c, a) ==
  /\ pc = "getopt"
  /\ nopts < MaxOpts
  /\ nopts' = nopts + 1
  /\ invalidSeen' = (invalidSeen \/ ValueInvalid(c, a))
  /\ UNCHANGED <<build, loopVars, sockVars, closeCalls, chkVars>>

OptAddress ==
  \E a \in AddressArgs :
    /\ ReadOption("a", a)
    /\ address' = Poke(Strncpy(address, a.str, 16), 15, 0)
    /\ UNCHANGED <<pc, exitStatus, missionId, platform, sendRate, servPort,
                   altitude, latitude, longitude, mapped>>

OptPort ==
  \E a \in PortArgs :
    /\ ReadOption("p", a)
    /\ servPort' = Atoi(a)
    /\ UNCHANGED <<pc, exitStatus, address, missionId, platform, sendRate,
                   altitude, latitude, longitude, mapped>>

OptRate ==
  \E a \in RateArgs :
    /\ ReadOption("r", a)
    /\ sendRate' = AtofFloat(a)
    /\ IF FGt(AtofFloat(a), FromInt(1000000)) THEN Exit(0)
       ELSE UNCHANGED <<pc, exitStatus>>
    /\ UNCHANGED <<address, missionId, platform, servPort,
                   altitude, latitude, longitude, mapped>>

OptMission ==
  \E a \in MissionArgs :
    /\ ReadOption("m", a)
    /\ missionId' = Poke(Strncpy(missionId, a.str, 12), 12, 0)
    /\ UNCHANGED <<pc, exitStatus, address, platform, sendRate, servPort,
                   altitude, latitude, longitude, mapped>>

OptPlatform ==
  \E a \in PlatformArgs :
    /\ ReadOption("n", a)
    /\ platform' = Poke(Strncpy(platform, a.str, 12), 12, 0)
    /\ UNCHANGED <<pc, exitStatus, address, missionId, sendRate, servPort,
                   altitude, latitude, longitude, mapped>>

OptLatitude ==
  \E a \in LatArgs : \E v \in mapLatitude(a) :
    /\ ReadOption("t", a)
    /\ latitude' = hton(Int32Bits(v), build.bigEndian)
    /\ mapped' = [fn |-> "lat", arg |-> a, out |-> v]
    /\ IF AtofLt(a, -90) \/ AtofGt(a, 90) THEN Exit(0)
       ELSE UNCHANGED <<pc, exitStatus>>
    /\ UNCHANGED <<address, missionId, platform, sendRate, servPort,
                   altitude, longitude>>

OptLongitude ==
  \E a \in LonArgs : \E v \in mapLongitude(a) :
    /\ ReadOption("g", a)
    /\ longitude' = hton(Int32Bits(v), build.bigEndian)
    /\ mapped' = [fn |-> "lon", arg |-> a, out |-> v]
    /\ IF AtofLt(a, -180) \/ AtofGt(a, 180) THEN Exit(0)
       ELSE UNCHANGED <<pc, exitStatus>>
    /\ UNCHANGED <<address, missionId, platform, sendRate, servPort,
                   altitude, latitude>>

OptAltitude ==
  \E a \in AltArgs : \E v \in mapAltitude(a) :
    /\ ReadOption("e", a)
    /\ altitude' = hton(ToBytes(v, 2), build.bigEndian)
    /\ mapped' = [fn |-> "alt", arg |-> a, out |-> v]
    /\ IF AtofLt(a, -900) \/ AtofGt(a, 19000) THEN Exit(0)
       ELSE UNCHANGED <<pc, exitStatus>>
    /\ UNCHANGED <<address, missionId, platform, sendRate, servPort,
                   latitude, longitude>>

\* -h, -v and an option getopt_long does not know: exit(0).
OptExit ==
  \E c \in {"h", "v", "?"} :
    /\ ReadOption(c, StrArg(<<>>))
    /\ Exit(0)
    /\ UNCHANGED configVars

\* getopt_long returns -1. Where char is unsigned, optc is 255, the comparison
\* with -1 fails to end the loop and the switch takes its default branch.
OptEnd ==
  /\ pc = "getopt"
  /\ IF build.charUnsigned THEN Exit(0)
     ELSE pc' = "udpInit" /\ UNCHANGED exitStatus
  /\ UNCHANGED <<build, nopts, invalidSeen, configVars, loopVars, sockVars,
                 closeCalls, chkVars>>

\* ------------------------------------------------------------- transport
\* What udpInit can meet: WSAStartup failing (WIN32 only), socket() failing,
\* or success.
InitOutcomes ==
  {"ok", "socketFails"} \cup (IF build.os = "WIN32" THEN {"wsaFails"} ELSE {})

\* The value udpInit returns.
udpInitReturn(outcome) ==
  IF outcome = "wsaFails" THEN 1
  ELSE IF outcome = "socketFails" THEN -1
  ELSE 0

\* What main does with the value udpInit returned: exit(-1), or go on.
InitIsFatal(ret) == ret = -1

\* if (udpInit() == -1) exit(-1);
UdpInit ==
  /\ pc = "udpInit"
  /\ \E outcome \in InitOutcomes :
       /\ initReturns' = Append(initReturns, udpInitReturn(outcome))
       /\ IF outcome = "wsaFails"
            THEN UNCHANGED <<sock, sockOpen, servaddr>>
          ELSE IF outcome = "socketFails"
            THEN sock' = -1 /\ UNCHANGED <<sockOpen, servaddr>>
          ELSE /\ sock' = 3
               /\ sockOpen' = TRUE
               /\ servaddr' = [addr |-> Bytes(address, 16), port |-> servPort % 65536]
       /\ IF InitIsFatal(udpInitReturn(outcome)) THEN Exit(-1)
          ELSE pc' = "clock" /\ UNCHANGED exitStatus
  /\ UNCHANGED <<build, nopts, invalidSeen, configVars, loopVars, closeCalls, chkVars>>

\* ------------------------------------------------------------- transmission loop
\* timestamp = htonll(updateTimestamp()); makePacket(packetBuffer);
\* The clock never goes backwards.
LoopEncode ==
  /\ pc = "clock"
  /\ tick < MaxTicks
  /\ \E clk \in LoopReadings :
       /\ ClockLeq(now, clk)
       /\ now' = clk
       /\ timestamp' = htonll(updateTimestamp(clk), build.bigEndian)
  /\ checksum' = PacketChecksum(packetBuffer, timestamp')
  /\ packetBuffer' = makePacket(packetBuffer, timestamp')
  /\ tick' = tick + 1
  /\ pc' = "send"
  /\ UNCHANGED <<build, nopts, invalidSeen, configVars, sockVars, sent, slept,
                 exitStatus, closeCalls, chkVars>>

\* A loop that ends when a send fails.
AfterSendStop(ok) == IF ok THEN "sleep" ELSE "exited"

\* Where the loop goes after sendto returned ok (TRUE) or -1 (FALSE): the
\* value udpSendPacket returns is not looked at.
AfterSend(ok) == "sleep"

\* udpSendPacket((const char *)packetBuffer): one sendto of PACKET_LENGTH
\* bytes; it fails on a sock that is no open socket and may fail on any.
LoopSend ==
  /\ pc = "send"
  /\ \E ok \in (IF sockOpen THEN {TRUE, FALSE} ELSE {FALSE}) :
       /\ sent' = Append(sent, [buf |-> Bytes(packetBuffer, PACKET_LENGTH),
                                len |-> PACKET_LENGTH, ok |-> ok,
                                tick |-> tick, clk |-> now])
       /\ pc' = AfterSend(ok)
  /\ UNCHANGED <<build, nopts, invalidSeen, configVars, sockVars, timestamp,
                 checksum, packetBuffer, now, tick, slept, exitStatus,
                 closeCalls, chkVars>>

\* Sleep((1 / sendRate) * 1000) on WIN32 (milliseconds),
\* usleep((1 / sendRate) * 1000) elsewhere (microseconds).
SleepArg == FMul(FDiv(FromInt(1), sendRate), FromInt(1000))

LoopSleep ==
  /\ pc = "sleep"
  /\ \E d \in ToUInt32Set(SleepArg) :
       slept' = [unit |-> IF build.os = "WIN32" THEN "ms" ELSE "us",
                 amount |-> d, tick |-> tick]
  /\ pc' = "clock"
  /\ UNCHANGED <<build, nopts, invalidSeen, configVars, sockVars, timestamp,
                 checksum, packetBuffer, now, tick, sent, exitStatus,
                 closeCalls, chkVars>>

\* ------------------------------------------------------------- shutdown
\* SIGINT, SIGTERM or SIGHUP is delivered (the handlers are installed only
\* when WIN32 is not defined): exitProgram closes sock and calls exit(0).
exitProgram ==
  /\ build.os # "WIN32"
  /\ pc # "exited"
  /\ closeCalls' = Append(closeCalls, [fd |-> sock, open |-> sockOpen])
  /\ sockOpen' = FALSE
  /\ Exit(0)
  /\ UNCHANGED <<build, nopts, invalidSeen, configVars, loopVars, sock, servaddr,
                 initReturns, chkVars>>

\* ------------------------------------------------------------- specification
Next ==
  \/ OptAddress
  \/ OptPort
  \/ OptRate
  \/ OptMission
  \/ OptPlatform
  \/ OptLatitude
  \/ OptLongitude
  \/ OptAltitude
  \/ OptExit
  \/ OptEnd
  \/ UdpInit
  \/ LoopEncode
  \/ LoopSend
  \/ LoopSleep
  \/ exitProgram

Spec == Init /\ [][Next]_vars

\* ------------------------------------------------------------- makeChecksum alone
mainVars == <<build, pc, nopts, invalidSeen, configVars, sockVars, timestamp,
              packetBuffer, now, tick, sent, slept, exitStatus, closeCalls>>

InitChk ==
  /\ MainInit
  /\ build = [os |-> "LINUX", bigEndian |-> FALSE, charUnsigned |-> FALSE]
  /\ buff \in [1..MaxLen -> ByteSamples]
  /\ len \in 0..MaxLen

\* One byte of the buffer is overwritten, and checksum = makeChecksum(buff, len).
ChkWrite ==
  /\ \E i \in DOMAIN buff : \E b \in ByteSamples :
       /\ b # buff[i]
       /\ buff' = [buff EXCEPT ![i] = b]
  /\ checksum' = ToBytes(makeChecksum(buff', len), 4)
  /\ UNCHANGED <<len, mainVars>>

\* checksum = makeChecksum(buff, len) over another length.
ChkLength ==
  /\ \E n \in 0..MaxLen : n # len /\ len' = n
  /\ checksum' = ToBytes(makeChecksum(buff, len'), 4)
  /\ UNCHANGED <<buff, mainVars>>

\* checksum = makeChecksum(buff, len);
ChkCall ==
  /\ checksum' = ToBytes(makeChecksum(buff, len), 4)
  /\ UNCHANGED <<buff, len, mainVars>>

NextChk == ChkWrite \/ ChkLength \/ ChkCall

SpecChk == InitChk /\ [][NextChk]_vars

\* ------------------------------------------------------------- claims
\* The items of the local data set: the offset of each tag, in packet order.
TagOffsets == <<17, 27, 41, 55, 61, 67, 71, 74>>
TagLenPairs == <<timestampTagLen, missionTagLen, platformTagLen, latitudeTagLen,
                 longitudeTagLen, altitudeTagLen, versionTagLen, checksumTagLen>>

\* Where the item after item j starts: the next tag, or the end of the packet.
NextItem(j) == IF j = 8 THEN 78 ELSE TagOffsets[j + 1]

\* The timestamp field of a packet (offsets 19..26) and its checksum.
TimestampField(p) == SubSeq(p, 20, 27)

\* C1: every buffer handed to sendto is sent with length 78 and carries the
\* Universal Key at 0..15, 0x3D at 16, the eight tag/length pairs at their
\* offsets and 0x02 at 73; each length byte is the distance to the next tag
\* (or to the end) and 0x3D is the number of bytes after offset 16.
C1_PacketLayout ==
  \A k \in 1..Len(sent) :
    LET p == sent[k].buf
    IN /\ sent[k].len = 78
       /\ Len(p) = 78
       /\ SubSeq(p, 1, 16) = <<6, 14, 43, 52, 2, 11, 1, 1, 14, 1, 3, 1, 1, 0, 0, 0>>
       /\ At(p, 16) = 61
       /\ At(p, 16) = 78 - 17
       /\ At(p, 73) = 2
       /\ \A j \in 1..8 :
            /\ At(p, TagOffsets[j]) = TagLenPairs[j][1]
            /\ At(p, TagOffsets[j] + 1) = TagLenPairs[j][2]
            /\ TagOffsets[j] + 2 + At(p, TagOffsets[j] + 1) = NextItem(j)
       /\ <<At(p, 17), At(p, 27), At(p, 41), At(p, 55), At(p, 61), At(p, 67),
            At(p, 71), At(p, 74)>> = <<2, 3, 10, 13, 14, 15, 65, 1>>

\* Two packets have been sent, the second with a mission id given on the
\* command line (it starts with "A") and truncated to 12 characters.
C1_Witness ==
  /\ Len(sent) = 2
  /\ At(sent[2].buf, 29) = 65
  /\ At(sent[2].buf, 40) = 76
  /\ nopts >= 1

\* C2: in every packet sent, bytes 76-77 hold makeChecksum(bytes 0..75) in
\* big-endian order: byte 76 its high byte, byte 77 its low byte.
C2_ChecksumBigEndian ==
  \A k \in 1..Len(sent) :
    LET p == sent[k].buf
        cs == makeChecksum(p, 76)
    IN At(p, 76) = cs \div 256 /\ At(p, 77) = cs % 256

\* C3: for an argument in range, mapLatitude and mapLongitude return a value
\* in [-2147483647, 2147483647], the lower end at -90 (-180) and the upper end
\* at 90 (180), and never -2147483648.
C3_MapRange ==
  LET bound == IF mapped.fn = "lat" THEN 90 ELSE 180
      a == mapped.arg
  IN (mapped.fn \in {"lat", "lon"} /\ ~AtofLt(a, -bound) /\ ~AtofGt(a, bound)) =>
       /\ mapped.out >= -2147483647
       /\ mapped.out <= 2147483647
       /\ (a.neg /\ a.num = bound * a.den) => mapped.out = -2147483647
       /\ (~a.neg /\ a.num = bound * a.den) => mapped.out = 2147483647

\* The k-th call of sendto belongs to tick k and carries the timestamp made
\* from the clock reading of that tick; the calls keep step with the ticks.
C4_OneSendPerTick ==
  /\ \A k \in 1..Len(sent) :
       /\ sent[k].tick = k
       /\ TimestampField(sent[k].buf) =
            Mem(htonll(updateTimestamp(sent[k].clk), build.bigEndian), build.bigEndian)
  /\ pc = "send" => Len(sent) = tick - 1
  /\ pc \in {"sleep", "clock"} => Len(sent) = tick
  /\ Len(sent) \in {tick - 1, tick} \/ tick = 0

\* A failed send leaves the process running and leads to the sleep; the sleep
\* leads to the next reading of the clock, and that to the send of the next
\* tick; only exitProgram (a signal) ends the loop.
C4_LoopStep ==
  /\ (Len(sent') = Len(sent) + 1 /\ ~sent'[Len(sent')].ok) =>
       (pc' = "sleep" /\ exitStatus' = exitStatus /\ exitStatus = -2)
  /\ (pc = "sleep" /\ pc' # pc) =>
       \/ pc' = "clock" /\ tick' = tick /\ sent' = sent /\ slept'.tick = tick
       \/ pc' = "exited" /\ Len(closeCalls') = Len(closeCalls) + 1
  /\ (pc = "clock" /\ pc' # pc) =>
       \/ pc' = "send" /\ tick' = tick + 1 /\ sent' = sent
       \/ pc' = "exited" /\ Len(closeCalls') = Len(closeCalls) + 1
  /\ (pc = "send" /\ pc' # pc) =>
       \/ Len(sent') = Len(sent) + 1 /\ sent'[Len(sent')].tick = tick
       \/ pc' = "exited" /\ Len(closeCalls') = Len(closeCalls) + 1

\* C4: a failed send at tick i never ends the loop and never skips or repeats
\* a tick: the loop sleeps and goes on to tick i+1, which reads the clock
\* again, encodes the packet with that timestamp and sends once; the buffer of
\* the failed tick is not sent again.
C4_FailedSendContinues == []C4_OneSendPerTick /\ [][C4_LoopStep]_vars

\* The send of tick 1 failed, and tick 2 has sent a packet with a later
\* timestamp.
C4_Witness ==
  /\ Len(sent) = 2
  /\ ~sent[1].ok
  /\ sent[2].tick = 2
  /\ sent[2].clk # sent[1].clk
  /\ TimestampField(sent[2].buf) # TimestampField(sent[1].buf)

\* C5: once an option with an invalid value has been read the process exits
\* during option parsing: udpInit is never called and no packet is sent.
C5_InvalidValueExits ==
  invalidSeen => (pc \in {"getopt", "exited"} /\ initReturns = <<>> /\ sent = <<>>)

\* C6: when udpInit fails (on any of its failure returns) the process ends
\* with a non-zero status, udpInit is not called again and the transmission
\* loop is never entered.
C6_InitFailureIsFatal ==
  (\E i \in 1..Len(initReturns) : initReturns[i] # 0) =>
    /\ pc = "exited"
    /\ exitStatus \notin {0, -2}
    /\ Len(initReturns) = 1
    /\ tick = 0
    /\ sent = <<>>

\* The rate, for the rates of the model (integers).
RateInt == CHOOSE v \in ToInt32Set(sendRate) : TRUE

\* C7: after each send the loop asks the platform to sleep 1/rate seconds:
\* 1,000,000/rate microseconds, or 1000/rate milliseconds on WIN32.
C7_SleepPeriod ==
  (slept.unit # "none" /\ RateInt > 0) =>
    slept.amount = ToBytes((IF slept.unit = "ms" THEN 1000 ELSE 1000000) \div RateInt, 4)

\* Microseconds from 1970-01-01T00:00:00Z to a clock reading, 0 before it.
Micros(clk) == IF clk.sec < 0 THEN 0 ELSE clk.sec * 1000000 + clk.nsec \div 1000

\* C8: updateTimestamp returns the wall-clock time in microseconds since the
\* epoch (seconds * 1,000,000 + the sub-second part in microseconds), and 0
\* for a reading before the epoch. (timestamp holds the value returned at
\* start, and its htonll in the loop.)
C8_TimestampMicros ==
  timestamp = IF tick = 0 THEN ToBytes(Micros(now), 8)
              ELSE htonll(ToBytes(Micros(now), 8), build.bigEndian)

\* C9: the clock never going backwards, the timestamps in bytes 19-26 of the
\* packets sent, read as big-endian numbers, never decrease from one tick to a
\* later one, and the packets are sent in the order of their ticks.
C9_TimestampsMonotone ==
  \A i, j \in 1..Len(sent) :
    i < j => /\ sent[i].tick < sent[j].tick
             /\ BytesLeq(TimestampField(sent[i].buf), TimestampField(sent[j].buf))

\* C10: changing the value of any single byte at an index below len, the
\* other bytes unchanged, changes the checksum makeChecksum returns (which is
\* a function of the bytes and the length).
C10_ChecksumDetectsByteChange ==
  \A i \in 0..(len - 1) : \A v \in 0..255 :
    v # At(buff, i) => makeChecksum(Poke(buff, i, v), len) # makeChecksum(buff, len)

\* makeChecksum has been called on three bytes of 255, where the 16-bit sum
\* wraps around.
C10_Witness ==
  /\ len = 3
  /\ buff = <<255, 255, 255>>
  /\ checksum = ToBytes(makeChecksum(buff, len), 4)
  /\ checksum = <<255, 254, 0, 0>>

\* C11: whenever exitProgram runs, at whatever point the signal arrives, the
\* descriptor it closes is a socket that a successful udpInit of this process
\* opened and that is still open.
C11_ClosesOnlyOpenedSocket ==
  \A i \in 1..Len(closeCalls) :
    /\ closeCalls[i].open
    /\ closeCalls[i].fd = sock
    /\ \E j \in 1..Len(initReturns) : initReturns[j] = 0

====
